---- MODULE Spec2Model ----
(***************************************************************************)
(* route53-sidecar (main.go): the DNS record lifecycle of the sidecar.     *)
(*                                                                         *)
(* The process is one goroutine (main) plus the signal context created by  *)
(* signal.NotifyContext.  The model follows main.go statement by statement:*)
(* configureFromFlags, the mode dispatch of main, setupDNS, tearDownDNS,   *)
(* waitForSync and SleepWithContext.  Time is counted in seconds (ticks).  *)
(* The Route 53 service and the metadata services are the environment:     *)
(* their answers are chosen nondeterministically.  A call of the AWS SDK   *)
(* made with a context that is already done returns the context's error.   *)
(*                                                                         *)
(* trace is a history variable: the events of the current setupDNS or      *)
(* tearDownDNS call; published is the summary of the finished setupDNS     *)
(* call once main has moved on to tearDownDNS in the full lifecycle.       *)
(***************************************************************************)
EXTENDS Integers, Sequences, FiniteSets, TLC

VARIABLES
    \* package variables (lines 25-31), set by the flags (lines 37-43)
    dns, hostedZone, dnsTTL, ipAddress, setupDelay, register, unRegister,
    \* answers of config.LoadDefaultConfig (46), imds (55-59), getEcsMetadata (66)
    loadCfgErr, imdsOut, ecsOut,
    \* main goroutine: position, function it is in, the ctx argument of that
    \* function; the signal context (241): done or not, signals delivered
    pc, fn, ctx, cancelled, signals,
    \* time.Sleep (124, 134): seconds left; seconds slept in the current
    \* time.Sleep or SleepWithContext; SleepWithContext's timer (230);
    \* failures (173); changeSet.ChangeInfo.Id (181); next id Route 53 hands out
    sleepLeft, slept, timer, failures, changeSet, nextId,
    \* history variables
    trace, published

globals == <<dns, hostedZone, dnsTTL, setupDelay, register, unRegister>>
environment == <<loadCfgErr, imdsOut, ecsOut>>
vars == <<dns, hostedZone, dnsTTL, ipAddress, setupDelay, register, unRegister,
          loadCfgErr, imdsOut, ecsOut,
          pc, fn, ctx, cancelled, signals,
          sleepLeft, slept, timer, failures, changeSet, nextId,
          trace, published>>

(***************************************************************************)
(* Bounds of the model.                                                    *)
(***************************************************************************)
MaxTTL == 1          \* dnsttl ranges over 0..MaxTTL seconds
MaxDelay == 1        \* setupdelay ranges over -1..MaxDelay seconds
MaxSignals == 2      \* SIGTERM/SIGINT deliveries in one run
MaxPending == 1      \* non-INSYNC answers of GetChange in one waitForSync call

(***************************************************************************)
(* Program constants.                                                      *)
(***************************************************************************)
PollInterval == 5    \* SleepWithContext(ctx, 5*time.Second)
MaxFailures == 3     \* failures > 3 is fatal
Weight == 100        \* Weight: aws.Int64(100)

Max(a, b) == IF a > b THEN a ELSE b

(***************************************************************************)
(* The environment: the metadata services' answers.                        *)
(***************************************************************************)
NoImds == [err |-> FALSE, readErr |-> FALSE, content |-> "-"]
ImdsAnswers ==
    { [err |-> TRUE,  readErr |-> FALSE, content |-> ""],
      [err |-> FALSE, readErr |-> TRUE,  content |-> ""],
      [err |-> FALSE, readErr |-> FALSE, content |-> ""],
      [err |-> FALSE, readErr |-> FALSE, content |-> "5.6.7.8"] }

Document(status, networks) ==
    [err |-> "", DesiredStatus |-> status, Networks |-> networks]
NoEcs == [err |-> "-", DesiredStatus |-> "", Networks |-> <<>>]
NetworkLists ==
    { <<>>, << <<>> >>, << <<"10.0.0.5">> >>,
      << <<"10.0.0.5", "10.0.0.6">>, <<"10.0.0.7">> >>,
      << <<>>, <<"10.0.0.7">> >> }
EcsAnswers ==
    { [err |-> "unreachable", DesiredStatus |-> "", Networks |-> <<>>],
      [err |-> "malformed",   DesiredStatus |-> "", Networks |-> <<>>] }
    \cup { Document(s, n) : s \in {"RUNNING", "STOPPED"}, n \in NetworkLists }

(***************************************************************************)
(* History events.                                                         *)
(***************************************************************************)
NoReq == [Action |-> "-", Name |-> "-", HostedZoneId |-> "-", Value |-> "-",
          TTL |-> 0, Type |-> "-", Weight |-> 0, SetIdentifier |-> "-",
          Comment |-> "-"]
Event(op, req, id, result, n) ==
    [op |-> op, req |-> req, id |-> id, result |-> result, n |-> n]
NoPublish == [called |-> FALSE, req |-> NoReq, id |-> 0, result |-> "-",
              end |-> "-", failures |-> 0, signals |-> 0]

Ops(op) == { i \in 1..Len(trace) : trace[i].op = op }
Results(op, result) == { i \in Ops(op) : trace[i].result = result }

(***************************************************************************)
(* Init: the state when main starts, before configureFromFlags: the flag   *)
(* values, and the answers the metadata services will give.                *)
(***************************************************************************)
Sources ==
    { <<a, NoImds, NoEcs>> : a \in {"1.2.3.4", ""} }
    \cup { <<"public-ipv4", i, NoEcs>> : i \in ImdsAnswers }
    \cup { <<"ecs", NoImds, e>> : e \in EcsAnswers }

Init ==
    /\ dns = "my.example.com"
    /\ hostedZone = "Z2AAAABCDEFGT4"
    /\ dnsTTL \in 0..MaxTTL
    /\ setupDelay \in -1..MaxDelay
    /\ register \in BOOLEAN
    /\ unRegister \in BOOLEAN
    /\ loadCfgErr \in BOOLEAN
    /\ \E s \in Sources : ipAddress = s[1] /\ imdsOut = s[2] /\ ecsOut = s[3]
    /\ pc = "configure"
    /\ fn = "main"
    /\ ctx = "signal"
    /\ cancelled = FALSE
    /\ signals = 0
    /\ sleepLeft = 0
    /\ slept = 0
    /\ timer = 0
    /\ failures = 0
    /\ changeSet = 0
    /\ nextId = 1
    /\ trace = <<>>
    /\ published = NoPublish

Alive == pc \notin {"exit", "fatal", "panic"}

\* ctx.Done() is ready: only the context of signal.NotifyContext is ever done.
Done(c) == c = "signal" /\ cancelled

(***************************************************************************)
(* Signal: SIGTERM or SIGINT is delivered.  NotifyContext cancels ctx on   *)
(* the first one; stop() is not called before main returns, so later ones  *)
(* are swallowed by the notify channel.                                    *)
(***************************************************************************)
Signal ==
    /\ Alive
    /\ signals < MaxSignals
    /\ signals' = signals + 1
    /\ cancelled' = TRUE
    /\ UNCHANGED <<globals, ipAddress, environment, pc, fn, ctx, sleepLeft,
                   slept, timer, failures, changeSet, nextId, trace, published>>

(***************************************************************************)
(* configureFromFlags.                                                     *)
(***************************************************************************)
\* line 70: metadata.Networks[0].IPv4Addresses[0] is in range
HasFirstAddress(m) ==
    /\ Len(m.Networks) > 0
    /\ Len(m.Networks[1]) > 0
\* fault: the last network is read
FirstAddressOfLast(m) == m.Networks[Len(m.Networks)][1]
FirstAddress(m) == m.Networks[1][1]

\* fault: DesiredStatus is not looked at
ConfigureIgnoringStatus ==
    IF loadCfgErr THEN <<"fatal", ipAddress>>
    ELSE IF ipAddress = "public-ipv4" THEN
        IF imdsOut.err \/ Done("signal") THEN <<"fatal", ipAddress>>
        ELSE IF imdsOut.readErr THEN <<"fatal", ipAddress>>
        ELSE <<"ok", imdsOut.content>>
    ELSE IF ipAddress = "ecs" THEN
        IF ecsOut.err # "" THEN <<"fatal", ipAddress>>
        ELSE IF ~HasFirstAddress(ecsOut) THEN <<"panic", ipAddress>>
        ELSE <<"ok", FirstAddress(ecsOut)>>
    ELSE <<"ok", ipAddress>>

\* what configureFromFlags does: <<outcome, value of ipAddress afterwards>>
Configure ==
    IF loadCfgErr THEN <<"fatal", ipAddress>>
    ELSE IF ipAddress = "public-ipv4" THEN
        IF imdsOut.err \/ Done("signal") THEN <<"fatal", ipAddress>>
        ELSE IF imdsOut.readErr THEN <<"fatal", ipAddress>>
        ELSE <<"ok", imdsOut.content>>
    ELSE IF ipAddress = "ecs" THEN
        IF ecsOut.err # "" THEN <<"fatal", ipAddress>>
        ELSE IF ~HasFirstAddress(ecsOut) THEN <<"panic", ipAddress>>
        ELSE IF ecsOut.DesiredStatus = "STOPPED"
             THEN <<"fatal", FirstAddress(ecsOut)>>
             ELSE <<"ok", FirstAddress(ecsOut)>>
    ELSE <<"ok", ipAddress>>

configureFromFlags ==
    /\ pc = "configure"
    /\ pc' = IF Configure[1] = "ok" THEN "dispatch" ELSE Configure[1]
    /\ ipAddress' = Configure[2]
    /\ UNCHANGED <<globals, environment, fn, ctx, cancelled, signals, sleepLeft,
                   slept, timer, failures, changeSet, nextId, trace, published>>

(***************************************************************************)
(* The Route 53 client.  A call made with a context that is done fails     *)
(* with the context's error ("ctxerr"); otherwise the service decides.     *)
(***************************************************************************)
\* r53.ChangeResourceRecordSets(ctx, input)
SubmitOutcomes(c) == IF Done(c) THEN {"ctxerr"} ELSE {"ok", "err"}
\* r53.GetChange(ctx, ...): an error, or ChangeInfo.Status
Pendings == Cardinality(Results("query", "PENDING"))
QueryOutcomes(c) ==
    IF Done(c) THEN {"ctxerr"}
    ELSE {"INSYNC", "err"} \cup (IF Pendings < MaxPending THEN {"PENDING"} ELSE {})
\* fault: every answer other than INSYNC is counted as a failure
IsErrorOrPending(r) == r # "INSYNC"
IsError(r) == r \in {"err", "ctxerr"}

(***************************************************************************)
(* main, lines 247-255.                                                    *)
(***************************************************************************)
\* fault: unregister is tested first
ModeUnregisterFirst ==
    IF unRegister THEN "unregister"
    ELSE IF register THEN "register"
    ELSE "full"

Mode ==
    IF register THEN "register"
    ELSE IF unRegister THEN "unregister"
    ELSE "full"

\* fault: main hands its own ctx to tearDownDNS in every mode
TearDownContextShared == "signal"

\* the context main passes to tearDownDNS
TearDownContext == IF Mode = "unregister" THEN "signal" ELSE "background"

\* fault: main returns after setupDNS in every mode
AfterSetupExits == "exit"

\* fault: main calls setupDNS again instead of blocking
AfterSetupRetries == IF Mode = "register" THEN "exit" ELSE "setup"

\* where main continues when setupDNS has returned
AfterSetup == IF Mode = "register" THEN "exit" ELSE "block"

main ==
    /\ pc = "dispatch"
    /\ IF Mode = "unregister"
       THEN pc' = "td_submit" /\ fn' = "tearDownDNS" /\ ctx' = TearDownContext
       ELSE pc' = "setup" /\ fn' = "setupDNS" /\ ctx' = "signal"
    /\ UNCHANGED <<globals, ipAddress, environment, cancelled, signals, sleepLeft,
                   slept, timer, failures, changeSet, nextId, trace, published>>

\* what main remembers of the setupDNS call (history only)
Summary ==
    LET s == CHOOSE i \in Ops("submit") : TRUE
    IN  [called |-> TRUE, req |-> trace[s].req, id |-> trace[s].id,
         result |-> trace[s].result,
         end |-> IF trace[s].result # "ok" THEN "submitfail"
                 ELSE IF Ops("cancel") # {} THEN "cancel" ELSE "insync",
         failures |-> failures, signals |-> signals]

\* line 253-254: <-ctx.Done(), then tearDownDNS(context.Background())
awaitSignal ==
    /\ pc = "block"
    /\ Done("signal")
    /\ pc' = "td_submit"
    /\ fn' = "tearDownDNS"
    /\ ctx' = TearDownContext
    /\ published' = Summary
    /\ trace' = <<>>
    /\ UNCHANGED <<globals, ipAddress, environment, cancelled, signals, sleepLeft,
                   slept, timer, failures, changeSet, nextId>>

(***************************************************************************)
(* time.Sleep: one second passes.                                          *)
(***************************************************************************)
SleepTick ==
    /\ pc \in {"setup_sleep", "td_drain"}
    /\ sleepLeft > 0
    /\ sleepLeft' = sleepLeft - 1
    /\ slept' = slept + 1
    /\ UNCHANGED <<globals, ipAddress, environment, pc, fn, ctx, cancelled, signals,
                   timer, failures, changeSet, nextId, trace, published>>

(***************************************************************************)
(* setupDNS.                                                               *)
(***************************************************************************)
\* fault: a delay of zero seconds is slept too
SetupSleepsNonNegative == setupDelay >= 0

\* lines 132-136
SetupSleeps == setupDelay > 0

setupDNS ==
    /\ pc = "setup"
    /\ IF SetupSleeps
       THEN pc' = "setup_sleep" /\ sleepLeft' = setupDelay
       ELSE pc' = "setup_submit" /\ sleepLeft' = 0
    /\ slept' = 0
    /\ UNCHANGED <<globals, ipAddress, environment, fn, ctx, cancelled, signals,
                   timer, failures, changeSet, nextId, trace, published>>

setupDelayDone ==
    /\ pc = "setup_sleep"
    /\ sleepLeft = 0
    /\ pc' = "setup_submit"
    /\ trace' = Append(trace, Event("delay", NoReq, 0, "-", slept))
    /\ slept' = 0
    /\ UNCHANGED <<globals, ipAddress, environment, fn, ctx, cancelled, signals,
                   sleepLeft, timer, failures, changeSet, nextId, published>>

\* lines 138-160
SetupInput ==
    [Action |-> "UPSERT", Name |-> dns, HostedZoneId |-> hostedZone,
     Value |-> ipAddress, TTL |-> dnsTTL, Type |-> "A", Weight |-> Weight,
     SetIdentifier |-> ipAddress, Comment |-> "route53-sidecar"]

\* fault: the Delete identifies the record set by its name
TearDownInputByName ==
    [Action |-> "DELETE", Name |-> dns, HostedZoneId |-> hostedZone,
     Value |-> ipAddress, TTL |-> dnsTTL, Type |-> "A", Weight |-> Weight,
     SetIdentifier |-> dns, Comment |-> ""]

\* lines 90-111
TearDownInput ==
    [Action |-> "DELETE", Name |-> dns, HostedZoneId |-> hostedZone,
     Value |-> ipAddress, TTL |-> dnsTTL, Type |-> "A", Weight |-> Weight,
     SetIdentifier |-> ipAddress, Comment |-> ""]

\* fault: the two error branches are exchanged
OnSubmitErrorSwapped(f) == IF f = "setupDNS" THEN "fatal" ELSE "return"

\* lines 163-166 and 115-117: what a failed submission does
OnSubmitError(f) == IF f = "setupDNS" THEN "return" ELSE "fatal"

\* fault: failures is not reset when a wait begins
EnterWaitKeepingFailures ==
    /\ pc' = "wait_sleep"
    /\ changeSet' = nextId
    /\ nextId' = nextId + 1
    /\ failures' = failures
    /\ timer' = PollInterval

\* fault: the handle of an earlier change is kept
EnterWaitStaleHandle ==
    /\ pc' = "wait_sleep"
    /\ changeSet' = IF changeSet = 0 THEN nextId ELSE changeSet
    /\ nextId' = nextId + 1
    /\ failures' = 0
    /\ timer' = PollInterval

\* the submission succeeded: waitForSync(ctx, changeSet) is entered (line 173)
EnterWait ==
    /\ pc' = "wait_sleep"
    /\ changeSet' = nextId
    /\ nextId' = nextId + 1
    /\ failures' = 0
    /\ timer' = PollInterval

\* lines 162-169
setupSubmit ==
    /\ pc = "setup_submit"
    /\ \E r \in SubmitOutcomes(ctx) :
        /\ trace' = Append(trace,
               Event("submit", SetupInput, IF r = "ok" THEN nextId ELSE 0, r, 0))
        /\ IF r = "ok" THEN EnterWait /\ fn' = fn
           ELSE /\ IF OnSubmitError(fn) = "return"
                   THEN pc' = AfterSetup /\ fn' = "main"
                   ELSE pc' = "fatal" /\ fn' = fn
                /\ UNCHANGED <<changeSet, nextId, failures, timer>>
    /\ UNCHANGED <<globals, ipAddress, environment, ctx, cancelled, signals,
                   sleepLeft, slept, published>>

(***************************************************************************)
(* tearDownDNS.                                                            *)
(***************************************************************************)
\* lines 113-120
tearDownSubmit ==
    /\ pc = "td_submit"
    /\ \E r \in SubmitOutcomes(ctx) :
        /\ trace' = Append(trace,
               Event("submit", TearDownInput, IF r = "ok" THEN nextId ELSE 0, r, 0))
        /\ IF r = "ok" THEN EnterWait /\ fn' = fn
           ELSE /\ IF OnSubmitError(fn) = "return"
                   THEN pc' = "exit" /\ fn' = "main"
                   ELSE pc' = "fatal" /\ fn' = fn
                /\ UNCHANGED <<changeSet, nextId, failures, timer>>
    /\ UNCHANGED <<globals, ipAddress, environment, ctx, cancelled, signals,
                   sleepLeft, slept, published>>

\* line 124: the duration of the TTL drain
DrainSeconds == Max(dnsTTL, 0)

\* lines 123-126: the TTL drain is over, tearDownDNS and main return
tearDownDone ==
    /\ pc = "td_drain"
    /\ sleepLeft = 0
    /\ pc' = "exit"
    /\ fn' = "main"
    /\ trace' = Append(trace, Event("drain", NoReq, 0, "-", slept))
    /\ UNCHANGED <<globals, ipAddress, environment, ctx, cancelled, signals,
                   sleepLeft, slept, timer, failures, changeSet, nextId, published>>

(***************************************************************************)
(* waitForSync and SleepWithContext.                                       *)
(***************************************************************************)
\* waitForSync returns to its caller, setupDNS (which returns to main) or
\* tearDownDNS (which starts the TTL drain)
ReturnFromWait ==
    IF fn = "setupDNS"
    THEN pc' = AfterSetup /\ fn' = "main" /\ sleepLeft' = 0 /\ slept' = 0
    ELSE pc' = "td_drain" /\ fn' = fn /\ sleepLeft' = DrainSeconds /\ slept' = 0

\* the poll timer of SleepWithContext runs
TimerTick ==
    /\ pc = "wait_sleep"
    /\ timer > 0
    /\ timer' = timer - 1
    /\ slept' = slept + 1
    /\ UNCHANGED <<globals, ipAddress, environment, pc, fn, ctx, cancelled, signals,
                   sleepLeft, failures, changeSet, nextId, trace, published>>

\* lines 232-234: select takes <-timer.C, SleepWithContext returns nil
sleepTimerFired ==
    /\ pc = "wait_sleep"
    /\ timer = 0
    /\ pc' = "wait_query"
    /\ UNCHANGED <<globals, ipAddress, environment, fn, ctx, cancelled, signals,
                   sleepLeft, slept, timer, failures, changeSet, nextId, trace,
                   published>>

\* lines 235-236 and 175-178: select takes <-ctx.Done(), waitForSync returns
sleepCancelled ==
    /\ pc = "wait_sleep"
    /\ Done(ctx)
    /\ trace' = Append(trace, Event("cancel", NoReq, changeSet, "-", failures))
    /\ ReturnFromWait
    /\ timer' = 0
    /\ UNCHANGED <<globals, ipAddress, environment, ctx, cancelled, signals,
                   failures, changeSet, nextId, published>>

\* fault: the third failure is already fatal
ExhaustedEarly(f) == f >= MaxFailures

\* fault: one more failure is tolerated
ExhaustedLate(f) == f > MaxFailures + 1

\* line 186: failures++; failures > 3 (the argument is the incremented count)
Exhausted(f) == f > MaxFailures

\* lines 180-198
getChange ==
    /\ pc = "wait_query"
    /\ \E r \in QueryOutcomes(ctx) :
        /\ trace' = Append(trace, Event("query", NoReq, changeSet, r,
                                        IF IsError(r) THEN failures + 1 ELSE failures))
        /\ IF IsError(r) THEN
               /\ failures' = failures + 1
               /\ IF Exhausted(failures + 1)
                  THEN pc' = "fatal" /\ timer' = 0
                  ELSE pc' = "wait_sleep" /\ timer' = PollInterval
               /\ slept' = 0
               /\ UNCHANGED <<fn, sleepLeft>>
           ELSE IF r = "INSYNC" THEN
               /\ ReturnFromWait
               /\ timer' = 0
               /\ UNCHANGED failures
           ELSE
               /\ pc' = "wait_sleep"
               /\ timer' = PollInterval
               /\ slept' = 0
               /\ UNCHANGED <<fn, sleepLeft, failures>>
    /\ UNCHANGED <<globals, ipAddress, environment, ctx, cancelled, signals,
                   changeSet, nextId, published>>

(***************************************************************************)
(* The specification.                                                      *)
(***************************************************************************)
Program ==
    \/ configureFromFlags
    \/ main
    \/ setupDNS
    \/ setupDelayDone
    \/ setupSubmit
    \/ awaitSignal
    \/ tearDownSubmit
    \/ tearDownDone
    \/ sleepTimerFired
    \/ sleepCancelled
    \/ getChange
    \/ SleepTick
    \/ TimerTick

Next ==
    \/ configureFromFlags
    \/ main
    \/ setupDNS
    \/ setupDelayDone
    \/ setupSubmit
    \/ awaitSignal
    \/ tearDownSubmit
    \/ tearDownDone
    \/ sleepTimerFired
    \/ sleepCancelled
    \/ getChange
    \/ SleepTick
    \/ TimerTick
    \/ Signal

Spec == Init /\ [][Next]_vars

\* the goroutine keeps running and time keeps passing; signals need not come
FairSpec == Spec /\ WF_vars(Program)

(***************************************************************************)
(* Properties.                                                             *)
(***************************************************************************)
Submitted(action) == { i \in Ops("submit") : trace[i].req.Action = action }
Accepted(action) == { i \in Submitted(action) : trace[i].result = "ok" }
InSyncFor(id) == { i \in Results("query", "INSYNC") : trace[i].id = id }
Last == trace[Len(trace)]

\* C1: in the full lifecycle the Upsert submission is attempted before main
\* blocks on the shutdown trigger, no Delete is submitted before the trigger
\* has fired, main does not exit without having submitted the Delete, and once
\* setupDNS has returned (also after a failed submission or a cancelled wait)
\* and the trigger has fired, tearDownDNS submits the Delete.
C1_Order ==
    Mode = "full" =>
        /\ pc = "block" => Submitted("UPSERT") # {} /\ Submitted("DELETE") = {}
        /\ published.called => published.req.Action = "UPSERT"
        /\ fn = "tearDownDNS" => published.called
        /\ Submitted("DELETE") # {} => cancelled /\ published.called
        /\ pc = "exit" => Submitted("DELETE") # {}
        /\ Submitted("UPSERT") # {} /\ Last.op \in {"cancel", "submit"}
              /\ Last.result # "ok" => pc = "block"
C1_Triggered == Mode = "full" /\ pc = "block" /\ cancelled
C2_TeardownUncancellable ==
    Mode = "full" /\ fn = "tearDownDNS" =>
        /\ cancelled /\ ~Done(ctx)
        /\ Ops("cancel") = {}
        /\ Results("submit", "ctxerr") = {} /\ Results("query", "ctxerr") = {}
        /\ pc \in {"td_drain", "exit"} =>
              /\ Accepted("DELETE") = {1}
              /\ InSyncFor(trace[1].id) # {}
C2_ExitAfterCleanup ==
    /\ C2_TeardownUncancellable
    /\ Mode = "full" /\ pc = "exit" =>
          /\ Accepted("DELETE") = {1}
          /\ InSyncFor(trace[1].id) # {}
          /\ Last.op = "drain" /\ Last.n = DrainSeconds
          /\ \A i \in InSyncFor(trace[1].id) : i = Len(trace) - 1
C2_Witness ==
    /\ Mode = "full"
    /\ pc = "exit"
    /\ signals > published.signals
    /\ dnsTTL > 0

\* C3: in the register and unregister modes signals are ignored: no wait is
\* left through the cancellation branch and no call to Route 53 fails with
\* the context's error.
C3_SignalsIgnored ==
    Mode \in {"register", "unregister"} =>
        /\ Ops("cancel") = {}
        /\ Results("submit", "ctxerr") = {}
        /\ Results("query", "ctxerr") = {}

\* C4: whenever tearDownDNS drains the TTL or has returned, the Delete was
\* accepted and INSYNC was observed for it before the drain, and the drain
\* lasted dnsTTL seconds, in the unregister mode and in the full lifecycle.
C4_RetractOrder ==
    fn = "tearDownDNS" \/ (Mode # "register" /\ pc = "exit") =>
        /\ pc \in {"td_drain", "exit"} =>
              /\ Accepted("DELETE") = {1}
              /\ InSyncFor(trace[1].id) # {}
        /\ pc = "exit" => Last.op = "drain" /\ Last.n = DrainSeconds

\* C5: waitForSync counts the errors of GetChange of the call; it returns at
\* the first INSYNC when at most MaxFailures errors preceded it (one query
\* when the first answer is INSYNC), and the process stops fatally exactly at
\* error MaxFailures + 1, which is the last query.
QueryErrors == { i \in Ops("query") : IsError(trace[i].result) }
InWait == pc \in {"wait_sleep", "wait_query"}
FatalInWait == pc = "fatal" /\ trace # <<>> /\ Last.op = "query"
C5_FailureBudget ==
    /\ InWait => failures = Cardinality(QueryErrors) /\ failures <= MaxFailures
    /\ FatalInWait =>
          /\ IsError(Last.result)
          /\ Cardinality(QueryErrors) = MaxFailures + 1
          /\ Results("query", "INSYNC") = {}
    /\ pc = "fatal" /\ QueryErrors # {} => FatalInWait
    /\ \A i \in Results("query", "INSYNC") :
          /\ ~InWait /\ pc # "fatal"
          /\ \A j \in Ops("query") : j <= i
          /\ Cardinality(QueryErrors) <= MaxFailures
          /\ Cardinality(Ops("query")) = 1 + Cardinality(QueryErrors) + Pendings
C5_Witness ==
    /\ Cardinality(QueryErrors) = MaxFailures
    /\ Results("query", "INSYNC") # {}
    /\ Pendings = 0
    /\ pc = "exit"

\* C6: once the signal has fired during the wait of setupDNS, no further
\* GetChange is issued, failures is not incremented and the process does not
\* stop fatally.
C6_CancelStopsPolling ==
    Accepted("UPSERT") # {} =>
        /\ \A i \in Ops("query") : trace[i].result # "ctxerr"
        /\ FatalInWait => Last.result = "err"

\* C7: a failed Upsert submission makes setupDNS return: no GetChange follows,
\* the process does not stop, and main goes on to block on the trigger (full
\* lifecycle) or exits (register); a failed Delete submission stops the
\* process before any GetChange and before the TTL drain.
FailedSubmit(action) == { i \in Submitted(action) : trace[i].result # "ok" }
C7_SubmitErrors ==
    /\ FailedSubmit("UPSERT") # {} =>
          /\ Len(trace) = CHOOSE i \in FailedSubmit("UPSERT") : TRUE
          /\ Ops("query") = {}
          /\ pc = IF Mode = "full" THEN "block" ELSE "exit"
    /\ published.called /\ published.result # "ok" =>
          /\ published.end = "submitfail"
          /\ published.id = 0
          /\ Mode = "full"
    /\ FailedSubmit("DELETE") # {} =>
          /\ trace = << trace[1] >>
          /\ pc = "fatal"
C7_Witness ==
    /\ published.called
    /\ published.result = "err"
    /\ FailedSubmit("DELETE") # {}
    /\ pc = "fatal"

\* C8: every submitted change has SetIdentifier = Value = the resolved
\* address, type A and weight 100, and in the full lifecycle the Delete has
\* the name, zone, address, set identifier and TTL of the Upsert.
SameRecord(a, b) ==
    /\ a.Name = b.Name
    /\ a.HostedZoneId = b.HostedZoneId
    /\ a.Value = b.Value
    /\ a.SetIdentifier = b.SetIdentifier
    /\ a.TTL = b.TTL
WellFormed(r) ==
    /\ r.SetIdentifier = r.Value
    /\ r.Value = ipAddress
    /\ r.Type = "A"
    /\ r.Weight = 100
C8_RecordIdentity ==
    /\ \A i \in Ops("submit") : WellFormed(trace[i].req)
    /\ published.called => WellFormed(published.req)
    /\ \A i \in Submitted("DELETE") :
          published.called => SameRecord(trace[i].req, published.req)
C8_Witness ==
    /\ published.called
    /\ published.result = "ok"
    /\ Accepted("DELETE") # {}
    /\ ipAddress = "10.0.0.5"

\* C9: with register set only an Upsert is submitted and main exits without
\* blocking on the trigger, also when unregister is set too; with unregister
\* alone only a Delete is submitted; the full lifecycle (Upsert, block,
\* Delete) runs exactly when neither flag is set.
InSetup == pc \in {"setup", "setup_sleep", "setup_submit"} \/ fn = "setupDNS"
C9_ModeDispatch ==
    /\ register =>
          /\ Submitted("DELETE") = {} /\ fn # "tearDownDNS"
          /\ pc # "block" /\ ~published.called
          /\ pc = "exit" => Submitted("UPSERT") # {}
    /\ unRegister /\ ~register =>
          /\ Submitted("UPSERT") = {} /\ ~InSetup
          /\ pc # "block" /\ ~published.called
          /\ pc = "exit" => Submitted("DELETE") # {}
    /\ ~register /\ ~unRegister =>
          /\ fn = "tearDownDNS" => published.called
          /\ pc = "exit" => published.called /\ Submitted("DELETE") # {}
    /\ pc = "block" \/ published.called => ~register /\ ~unRegister
C9_Witness ==
    /\ register /\ unRegister
    /\ pc = "exit"
    /\ Accepted("UPSERT") # {}

\* C10: when the address cannot be resolved (metadata service unreachable,
\* document unreadable or malformed, task STOPPED) the process stops in
\* configureFromFlags: no call to Route 53 is ever made, in any mode.
ResolutionFails ==
    \/ ipAddress = "public-ipv4" /\ (imdsOut.err \/ imdsOut.readErr)
    \/ ecsOut.err \in {"unreachable", "malformed"}
    \/ ecsOut.err = "" /\ ecsOut.DesiredStatus = "STOPPED"
C10_ResolutionFatal ==
    ResolutionFails =>
        /\ pc \in {"configure", "fatal", "panic"}
        /\ trace = <<>>
        /\ ~published.called
        /\ fn = "main"
C10_Witness ==
    /\ ecsOut.err = "" /\ ecsOut.DesiredStatus = "STOPPED"
    /\ HasFirstAddress(ecsOut)
    /\ ~loadCfgErr
    /\ Mode = "full"
    /\ pc = "fatal"


\* C11: no change is ever submitted with an empty address (an empty answer of
\* the instance metadata service, or an empty -ipaddress, stops the process).
C11_AddressNotEmpty ==
    /\ \A i \in Ops("submit") : trace[i].req.Value # ""
    /\ published.called => published.req.Value # ""


\* C12 as claimed: with -ipaddress=ecs, a document that is not STOPPED and has
\* some network with some address resolves to the first address of the first
\* network; a STOPPED document, and a document without networks or without
\* addresses, stop the process.
FromEcs == ecsOut.err = "" /\ ~loadCfgErr
Configured == pc # "configure"
Stopped == pc \in {"fatal", "panic"} /\ trace = <<>> /\ fn = "main"
SomeAddress ==
    \E i \in 1..Len(ecsOut.Networks) : Len(ecsOut.Networks[i]) > 0
NoAddress ==
    \A i \in 1..Len(ecsOut.Networks) : Len(ecsOut.Networks[i]) = 0
C12_AnyNetworkWithAddress ==
    FromEcs /\ Configured =>
        /\ ecsOut.DesiredStatus # "STOPPED" /\ SomeAddress =>
              ~Stopped /\ ipAddress = ecsOut.Networks[1][1]
        /\ ecsOut.DesiredStatus = "STOPPED" => Stopped
        /\ NoAddress => Stopped

\* C12 as amended: the document resolves when its first network has an
\* address, to the first address of that network; it stops the process when
\* it is STOPPED, whatever its networks, and also when it has no network or
\* its first network has no address.
FirstNetworkHasAddress ==
    Len(ecsOut.Networks) > 0 /\ Len(ecsOut.Networks[1]) > 0
C12_EcsResolution ==
    FromEcs /\ Configured =>
        /\ ecsOut.DesiredStatus # "STOPPED" /\ FirstNetworkHasAddress =>
              ~Stopped /\ ipAddress = ecsOut.Networks[1][1]
        /\ ecsOut.DesiredStatus = "STOPPED" => Stopped
        /\ ~FirstNetworkHasAddress => Stopped
C12_Witness ==
    /\ FromEcs
    /\ ecsOut.DesiredStatus = "RUNNING"
    /\ Len(ecsOut.Networks) = 2 /\ Len(ecsOut.Networks[1]) = 2
    /\ Accepted("UPSERT") # {}
    /\ trace[1].req.Value = "10.0.0.5"


\* C13: in the full lifecycle, once the trigger has fired and setupDNS has
\* returned, the process eventually exits cleanly after the TTL drain, unless
\* Route 53 rejects the Delete or answers MaxFailures + 1 status queries of
\* the teardown wait with an error; signals during teardown do not matter.
C13_DeleteRejected ==
    /\ pc = "fatal"
    /\ Results("submit", "err") # {}
    /\ Last.req.Action = "DELETE"
C13_QueriesFailed ==
    /\ pc = "fatal"
    /\ Accepted("DELETE") # {}
    /\ Cardinality(Results("query", "err")) = MaxFailures + 1
C13_CleanExit ==
    /\ pc = "exit"
    /\ Accepted("DELETE") # {}
    /\ Results("query", "INSYNC") # {}
    /\ Last.op = "drain" /\ Last.n = dnsTTL
C13_TeardownCompletes ==
    C1_Triggered ~> (C13_CleanExit \/ C13_DeleteRejected \/ C13_QueriesFailed)
C13_Witness ==
    /\ Mode = "full"
    /\ C13_CleanExit
    /\ published.end = "cancel"
    /\ published.failures = MaxFailures
    /\ Cardinality(Results("query", "err")) = MaxFailures
    /\ signals > published.signals


\* C14: failures counts the GetChange errors of the current waitForSync call
\* only, and all of them: an answer that is not an error between two errors
\* does not reset it, the error that makes MaxFailures + 1 stops the process,
\* and the errors of the wait of setupDNS do not count in the wait of
\* tearDownDNS.
ErrorsUpTo(i) ==
    Cardinality({ j \in Ops("query") : j <= i /\ trace[j].result \in {"err", "ctxerr"} })
C14_CounterCumulativeAndLocal ==
    /\ \A i \in Ops("query") : trace[i].n = ErrorsUpTo(i)
    /\ InWait => failures = ErrorsUpTo(Len(trace))
    /\ Ops("query") # {} =>
          (ErrorsUpTo(Len(trace)) > MaxFailures <=> pc = "fatal")
    /\ published.called => published.failures <= MaxFailures
    /\ Mode = "full" /\ Accepted("DELETE") # {} /\ pc = "fatal" =>
          ErrorsUpTo(Len(trace)) = MaxFailures + 1
C14_Witness ==
    /\ Mode = "full"
    /\ published.failures = MaxFailures
    /\ ErrorsUpTo(Len(trace)) = MaxFailures
    /\ \E i \in Results("query", "PENDING") :
          ErrorsUpTo(i) > 0 /\ ErrorsUpTo(i) < MaxFailures
    /\ pc = "exit"


\* C15: an answer other than INSYNC that is not an error leaves failures as
\* it was and keeps waitForSync polling; the wait is left only at an INSYNC
\* answer, through the cancellation branch (which needs a done context), or
\* by the fatal stop at error MaxFailures + 1.  Hence on a context that is
\* never done the wait does not return unless INSYNC was answered.
FailuresBefore(i) ==
    LET earlier == { j \in Ops("query") : j < i }
    IN  IF earlier = {} THEN 0
        ELSE trace[CHOOSE j \in earlier : \A k \in earlier : k <= j].n
WaitEvents == Ops("query") \cup Ops("cancel")
WaitEnd == CHOOSE i \in WaitEvents : \A k \in WaitEvents : k <= i
BudgetExceeded == ErrorsUpTo(Len(trace)) > MaxFailures
C16_FatalState ==
    /\ Mode = "full" /\ Submitted("UPSERT") # {} /\ BudgetExceeded =>
          /\ pc = "fatal"
          /\ Submitted("DELETE") = {} /\ ~published.called
    /\ published.called => published.failures <= MaxFailures
    /\ Submitted("DELETE") # {} /\ BudgetExceeded =>
          /\ pc = "fatal"
          /\ Ops("drain") = {} /\ slept = 0 /\ sleepLeft = 0
    /\ pc = "fatal" => Ops("drain") = {}
C16_FatalIsFinal ==
    /\ []C16_FatalState
    /\ [][pc = "fatal" => pc' = "fatal" /\ trace' = trace
              /\ published' = published /\ slept' = slept]_vars
C16_Witness ==
    /\ Mode = "full"
    /\ Accepted("UPSERT") # {}
    /\ BudgetExceeded
    /\ pc = "fatal"
    /\ Results("query", "PENDING") # {}


\* C17: a call of setupDNS or tearDownDNS submits one change and never
\* submits again, whether the submission failed or not; a run makes at most
\* two submissions, at most one Upsert and at most one Delete, and in the
\* full lifecycle the Upsert is submitted before the Delete.
PastSubmit ==
    pc \in {"wait_sleep", "wait_query", "td_drain", "block", "exit"}
SubmissionsInRun ==
    Cardinality(Ops("submit")) + (IF published.called THEN 1 ELSE 0)
C18_SetupDelay ==
    /\ pc = "setup_sleep" => setupDelay > 0 /\ sleepLeft + slept = setupDelay
    /\ Ops("delay") # {} => setupDelay > 0 /\ Ops("delay") = {1}
    /\ \A i \in Submitted("UPSERT") :
          IF setupDelay > 0
          THEN i = 2 /\ trace[1].op = "delay" /\ trace[1].n = setupDelay
          ELSE i = 1
    /\ pc = "setup_submit" => (setupDelay > 0 <=> Ops("delay") # {})
    /\ Mode = "full" /\ pc = "block" => Cardinality(Submitted("UPSERT")) = 1
C18_Witness ==
    /\ Mode = "full"
    /\ pc = "block"
    /\ setupDelay > 0
    /\ trace[1].op = "delay" /\ trace[1].n = setupDelay
    /\ trace[2].result = "ctxerr"


\* C19: every GetChange asks for the change the submission of the same call
\* returned, and is issued when a full poll interval has passed since the
\* submission or the previous query; no GetChange follows the INSYNC answer
\* or the cancellation that ended the wait; the wait of tearDownDNS never
\* asks for the change of the Upsert.
WaitEnded == Results("query", "INSYNC") \cup Ops("cancel")
C19_HandleAndInterval ==
    /\ pc = "wait_sleep" => slept + timer = PollInterval
    /\ pc = "wait_query" => slept = PollInterval /\ timer = 0
    /\ InWait =>
          /\ Cardinality(Results("submit", "ok")) = 1
          /\ changeSet = trace[CHOOSE s \in Results("submit", "ok") : TRUE].id
          /\ WaitEnded = {}
    /\ \A q \in Ops("query") :
          /\ trace[q].id # 0
          /\ \E s \in Results("submit", "ok") : s < q /\ trace[q].id = trace[s].id
          /\ \A e \in WaitEnded : q <= e
          /\ published.called /\ published.id # 0 => trace[q].id # published.id
    /\ Cardinality(WaitEnded) <= 1
    /\ WaitEnded # {} => ~InWait
C19_Witness ==
    /\ published.called
    /\ published.id = 1
    /\ published.end = "cancel"
    /\ Cardinality(Ops("query")) >= 2
    /\ \A q \in Ops("query") : trace[q].id = 2
    /\ pc = "exit"

====
